---- MODULE Spec2Model ----
(***************************************************************************)
(* Model of the multi-threaded image processor: the coordinator (main and  *)
(* runWorker of the multi-threaded runner) and the worker threads          *)
(* (processImage of worker.js).                                            *)
(*                                                                         *)
(* The main thread is one run-to-completion JavaScript thread: between two *)
(* of its awaits nothing else runs on it, so an event callback is one      *)
(* action, the microtasks it triggers included.  Worker threads run in     *)
(* parallel with the main thread and with each other.                      *)
(***************************************************************************)
EXTENDS Integers, Sequences, FiniteSets, TLC

\* ---------------------------------------------------------------- bounds
\* Largest number of directory entries of a run.
MaxFiles == 2

\* Largest configured concurrency bound the claims are checked for.
MaxConcurrency == 2

\* ------------------------------------------------------------- filenames
\* A filename is a sequence of one-character strings.
FilePool ==
    << <<"a", ".", "j", "p", "g">>,
       <<"a", ".", "p", "n", "g">>,
       <<"a", ".", "b", ".", "j", "p", "g">>,
       <<"b", ".", "J", "P", "E", "G">>,
       <<"c", ".", "t", "x", "t">> >>

\* The i flag of the regular expression: case folding of one character.
ToLower(c) ==
    CASE c = "J" -> "j"
      [] c = "P" -> "p"
      [] c = "E" -> "e"
      [] c = "G" -> "g"
      [] c = "N" -> "n"
      [] c = "W" -> "w"
      [] c = "B" -> "b"
      [] OTHER -> c

\* The alternatives of the regular expression.
Extensions ==
    { <<"j", "p", "g">>, <<"j", "p", "e", "g">>,
      <<"p", "n", "g">>, <<"w", "e", "b", "p">> }

\* /\.(jpg|jpeg|png|webp)$/i.test(file)
IsImageFile(file) ==
    \E e \in Extensions :
        /\ Len(file) >= Len(e) + 1
        /\ file[Len(file) - Len(e)] = "."
        /\ \A k \in 1..Len(e) : ToLower(file[Len(file) - Len(e) + k]) = e[k]

\* filename.split('.')[0]: the characters before the first dot.
SplitFirst(filename) ==
    LET dots == { k \in 1..Len(filename) : filename[k] = "." }
    IN  IF dots = {} THEN filename
        ELSE SubSeq(filename, 1,
                    (CHOOSE k \in dots : \A m \in dots : k <= m) - 1)

\* path.join(OUTPUT_DIR, filename.split('.')[0]), relative to OUTPUT_DIR.
OutputSubDirPath(filename) == SplitFirst(filename)

\* The directory entries with the indices S, in directory order.
Listing(S) ==
    LET F[k \in 0..Len(FilePool)] ==
            IF k = 0 THEN <<>>
            ELSE IF k \in S THEN Append(F[k - 1], FilePool[k]) ELSE F[k - 1]
    IN  F[Len(FilePool)]

\* ------------------------------------------------------------ the worker
\* The awaits of processImage, in order: mkdir, Jimp.read and the six tasks.
Tasks == <<"thumbnail", "small", "medium", "large", "grayscale", "blur">>
Stages == <<"mkdir", "read">> \o Tasks
NumStages == Len(Stages)

\* Exit codes a worker thread ends with.
ExitCodes == {0, 1}

NoValue == [kind |-> "none", filename |-> <<>>, stage |-> "", code |-> 0]
\* parentPort.postMessage({ success: true, filename })
Message(filename) ==
    [kind |-> "message", filename |-> filename, stage |-> "", code |-> 0]
\* The error a stage throws, delivered with the worker's error event.
StageError(stage) ==
    [kind |-> "error", filename |-> <<>>, stage |-> stage, code |-> 0]
\* The exit event and new Error(`Worker stopped with exit code ${code}`).
ExitEvent(code) ==
    [kind |-> "exit", filename |-> <<>>, stage |-> "", code |-> code]
\* new Worker(...) throws inside the promise executor.
ConstructError ==
    [kind |-> "construct", filename |-> <<>>, stage |-> "", code |-> 0]

Pending == [state |-> "pending", value |-> NoValue]
Resolved(v) == [state |-> "resolved", value |-> v]
Rejected(v) == [state |-> "rejected", value |-> v]

VARIABLES
    files,       \* the entries readdir returns
    imageFiles,  \* the entries the filter keeps: the batch
    pc,          \* position of main
    mapIdx,      \* number of items the map callback has run for, plus one
    worker,      \* per item: the worker thread's status and stage
    chan,        \* per item: events of the worker not yet handled by main
    promise,     \* per item: the promise runWorker returned
    agg,         \* Promise.all(imagePromises)
    startOrder,  \* items in the order their workers were started
    summaries,   \* number of times the summary was logged
    seq          \* the run of the sequential runner on the same directory

vars == <<files, imageFiles, pc, mapIdx, worker, chan, promise, agg,
          startOrder, summaries, seq>>

N == Len(imageFiles)
Items == 1..N

\* A worker thread: its status, the await of processImage it is at, its
\* outputSubDirPath, the derivatives it has written and the number of
\* messages it has posted.
NoWorker ==
    [status |-> "none", stage |-> 0, dir |-> <<>>, written |-> <<>>, posted |-> 0]
\* The thread new Worker starts with workerData.filename = filename.
StartedWorker(filename) ==
    [status |-> "running", stage |-> 1, dir |-> OutputSubDirPath(filename),
     written |-> <<>>, posted |-> 0]
AggPending == [state |-> "pending", values |-> <<>>, reason |-> NoValue]

\* The sequential runner before it is run: its position, its batch, the
\* loop index, the await of its processImage, the (subdirectory, derivative)
\* files written, the items logged as processed and the summaries logged;
\* assumed tells that an await had a result no worker had shown.
SeqIdle ==
    [pc |-> "idle", imageFiles |-> <<>>, i |-> 0, stage |-> 0,
     outputs |-> {}, processed |-> {}, summaries |-> 0, assumed |-> FALSE]

Init ==
    /\ \E S \in SUBSET (1..Len(FilePool)) :
          /\ Cardinality(S) <= MaxFiles
          /\ files = Listing(S)
    /\ imageFiles = <<>>
    /\ pc = "readdir"
    /\ mapIdx = 1
    /\ worker = <<>>
    /\ chan = <<>>
    /\ promise = <<>>
    /\ agg = AggPending
    /\ startOrder = <<>>
    /\ summaries = 0
    /\ seq = SeqIdle

\* ------------------------------------------------------------------ main
\* await readdir(INPUT_DIR), then the filter.
Readdir ==
    /\ pc = "readdir"
    /\ imageFiles' = SelectSeq(files, IsImageFile)
    /\ worker' = [i \in 1..Len(imageFiles') |-> NoWorker]
    /\ chan' = [i \in 1..Len(imageFiles') |-> <<>>]
    /\ promise' = [i \in 1..Len(imageFiles') |-> Pending]
    /\ pc' = "map"
    /\ UNCHANGED <<seq, files, mapIdx, agg, startOrder, summaries>>

\* Variant of NextItem: the map walks the batch from its end.
NextItem_reversed == Len(imageFiles) + 1 - mapIdx

\* The item the map callback runs for next.
NextItem == mapIdx

\* Variant of MapStep: a constructor that throws ends the iteration, as it
\* would in a loop that awaits each item.
MapStep_abort ==
    /\ pc = "map"
    /\ mapIdx <= N
    /\ LET i == NextItem IN
       \E ok \in BOOLEAN :
          IF ok
          THEN /\ worker' = [worker EXCEPT ![i] = StartedWorker(imageFiles[i])]
               /\ startOrder' = Append(startOrder, i)
               /\ mapIdx' = mapIdx + 1
               /\ UNCHANGED promise
          ELSE /\ promise' = [promise EXCEPT ![i] = Rejected(ConstructError)]
               /\ mapIdx' = N + 1
               /\ UNCHANGED <<worker, startOrder>>
    /\ UNCHANGED <<seq, files, imageFiles, pc, chan, agg, summaries>>

\* One call of the map callback: runWorker(filePath, file) up to its await.
\* new Worker either starts a thread or throws inside the executor, which
\* rejects the promise.
MapStep ==
    /\ pc = "map"
    /\ mapIdx <= N
    /\ LET i == NextItem IN
       \E ok \in BOOLEAN :
          IF ok
          THEN /\ worker' = [worker EXCEPT ![i] = StartedWorker(imageFiles[i])]
               /\ startOrder' = Append(startOrder, i)
               /\ UNCHANGED promise
          ELSE /\ promise' = [promise EXCEPT ![i] = Rejected(ConstructError)]
               /\ UNCHANGED <<worker, startOrder>>
    /\ mapIdx' = mapIdx + 1
    /\ UNCHANGED <<seq, files, imageFiles, pc, chan, agg, summaries>>

\* Variant of PromiseAll: a join that settles only when an outcome arrives,
\* and so never for an empty batch.
PromiseAll_onOutcome(p, first) ==
    IF first \in DOMAIN p /\ p[first].state = "rejected"
    THEN [state |-> "rejected", values |-> <<>>, reason |-> p[first].value]
    ELSE IF DOMAIN p # {} /\ \A i \in DOMAIN p : p[i].state = "resolved"
    THEN [state |-> "resolved", values |-> [i \in DOMAIN p |-> p[i].value],
          reason |-> NoValue]
    ELSE AggPending

\* Promise.all over the promises p, all of them pending when it was created
\* except those the map already rejected: it rejects with the first
\* rejection it sees and resolves with the values in batch order once every
\* promise is resolved.  first is the item whose reaction runs first.
PromiseAll(p, first) ==
    IF first \in DOMAIN p /\ p[first].state = "rejected"
    THEN [state |-> "rejected", values |-> <<>>, reason |-> p[first].value]
    ELSE IF \A i \in DOMAIN p : p[i].state = "resolved"
    THEN [state |-> "resolved", values |-> [i \in DOMAIN p |-> p[i].value],
          reason |-> NoValue]
    ELSE AggPending

\* main after the await of the aggregate a: the summary when it returns,
\* the rejection of main() when it throws.
AfterAwait(a) ==
    /\ agg' = a
    /\ CASE a.state = "resolved" -> pc' = "done" /\ summaries' = summaries + 1
         [] a.state = "rejected" -> pc' = "rejected" /\ UNCHANGED summaries
         [] OTHER -> pc' = "await" /\ UNCHANGED summaries

\* The end of the map, Promise.all(imagePromises) and the await: the
\* microtasks queued by the map run here, in batch order.
Join ==
    /\ pc = "map"
    /\ mapIdx > N
    /\ LET rej == { i \in Items : promise[i].state = "rejected" }
           first == IF rej = {} THEN 0
                    ELSE CHOOSE i \in rej : \A j \in rej : i <= j
       IN  AfterAwait(PromiseAll(promise, first))
    /\ UNCHANGED <<seq, files, imageFiles, mapIdx, worker, chan, promise, startOrder>>

\* main() has no catch: the rejection of its promise is unhandled.  In the
\* runtime's default mode it ends the process, and with it every worker
\* thread; until then, and in the modes that only warn, the main thread
\* goes on handling events.
ProcessExit ==
    /\ pc = "rejected"
    /\ pc' = "crashed"
    /\ worker' = [i \in Items |->
                    IF worker[i].status = "running"
                    THEN [worker[i] EXCEPT !.status = "killed"]
                    ELSE worker[i]]
    /\ chan' = [i \in Items |-> <<>>]
    /\ UNCHANGED <<seq, files, imageFiles, mapIdx, promise, agg, startOrder, summaries>>

\* --------------------------------------------------- callbacks of runWorker
\* The main thread handles events only while it is not running main's code.
CanHandle(i) ==
    /\ pc \in {"await", "done", "rejected"}
    /\ i \in Items
    /\ chan[i] # <<>>

\* Variant of Settle: every call records its outcome, the last one stays.
Settle_overwrite(p, s) == s

\* A promise settles once: resolve and reject of a settled promise do nothing.
Settle(p, s) == IF p.state = "pending" THEN s ELSE p

\* The microtasks after item i's promise became p: the aggregate, unless it
\* is settled already, and main's continuation.
Propagate(i, p) ==
    /\ promise' = [promise EXCEPT ![i] = p]
    /\ IF pc = "await" /\ promise[i].state = "pending"
       THEN AfterAwait(PromiseAll(promise', i))
       ELSE UNCHANGED <<pc, agg, summaries>>

\* worker.on('message', resolve)
OnMessage(i) ==
    /\ CanHandle(i)
    /\ Head(chan[i]).kind = "message"
    /\ chan' = [chan EXCEPT ![i] = Tail(chan[i])]
    /\ Propagate(i, Settle(promise[i], Resolved(Head(chan[i]))))
    /\ UNCHANGED <<seq, files, imageFiles, mapIdx, worker, startOrder>>

\* worker.on('error', reject)
OnError(i) ==
    /\ CanHandle(i)
    /\ Head(chan[i]).kind = "error"
    /\ chan' = [chan EXCEPT ![i] = Tail(chan[i])]
    /\ Propagate(i, Settle(promise[i], Rejected(Head(chan[i]))))
    /\ UNCHANGED <<seq, files, imageFiles, mapIdx, worker, startOrder>>

\* worker.on('exit', (code) => { if (code !== 0) reject(...) })
OnExit(i) ==
    /\ CanHandle(i)
    /\ Head(chan[i]).kind = "exit"
    /\ chan' = [chan EXCEPT ![i] = Tail(chan[i])]
    /\ IF Head(chan[i]).code # 0
       THEN Propagate(i, Settle(promise[i], Rejected(Head(chan[i]))))
       ELSE UNCHANGED <<promise, pc, agg, summaries>>
    /\ UNCHANGED <<seq, files, imageFiles, mapIdx, worker, startOrder>>

\* ------------------------------------------------------ the worker thread
Running(i) == i \in Items /\ worker[i].status = "running"

\* Variant of TaskOfStage: the tasks array in the opposite order.
TaskOfStage_reversed(stage) == Tasks[NumStages + 1 - stage]

\* The task the for loop runs at the stage: mkdir and Jimp.read come first.
TaskOfStage(stage) == Tasks[stage - 2]

\* One await of processImage returns: mkdir, Jimp.read or a task's write,
\* which leaves the task's file in the output subdirectory.
WorkerStep(i) ==
    /\ Running(i)
    /\ worker[i].stage <= NumStages
    /\ worker' = [worker EXCEPT
          ![i].stage = @ + 1,
          ![i].written = IF worker[i].stage >= 3
                         THEN Append(@, TaskOfStage(worker[i].stage))
                         ELSE @]
    /\ UNCHANGED <<seq, files, imageFiles, pc, mapIdx, chan, promise, agg,
                   startOrder, summaries>>

\* One await of processImage throws: processImage() rejects unhandled, the
\* thread ends with an error event and exit code 1.
WorkerThrow(i) ==
    /\ Running(i)
    /\ worker[i].stage <= NumStages
    /\ worker' = [worker EXCEPT ![i].status = "threw"]
    /\ chan' = [chan EXCEPT ![i] =
                  <<StageError(Stages[worker[i].stage]), ExitEvent(1)>>]
    /\ UNCHANGED <<seq, files, imageFiles, pc, mapIdx, promise, agg,
                   startOrder, summaries>>

\* Variant of WorkerPost: the message is posted before the loop has ended.
WorkerPost_early(i) ==
    /\ Running(i)
    /\ worker[i].stage >= 1
    /\ worker' = [worker EXCEPT ![i].status = "posted", ![i].posted = @ + 1]
    /\ chan' = [chan EXCEPT ![i] = <<Message(imageFiles[i]), ExitEvent(0)>>]
    /\ UNCHANGED <<seq, files, imageFiles, pc, mapIdx, promise, agg,
                   startOrder, summaries>>

\* parentPort.postMessage after the loop; the thread then ends with code 0.
WorkerPost(i) ==
    /\ Running(i)
    /\ worker[i].stage = NumStages + 1
    /\ worker' = [worker EXCEPT ![i].status = "posted", ![i].posted = @ + 1]
    /\ chan' = [chan EXCEPT ![i] = <<Message(imageFiles[i]), ExitEvent(0)>>]
    /\ UNCHANGED <<seq, files, imageFiles, pc, mapIdx, promise, agg,
                   startOrder, summaries>>

\* The thread ends while processImage is suspended at an await that never
\* returns: an exit event and nothing else.
WorkerHalt(i) ==
    /\ Running(i)
    /\ worker[i].stage <= NumStages
    /\ \E code \in ExitCodes :
          chan' = [chan EXCEPT ![i] = <<ExitEvent(code)>>]
    /\ worker' = [worker EXCEPT ![i].status = "halted"]
    /\ UNCHANGED <<seq, files, imageFiles, pc, mapIdx, promise, agg,
                   startOrder, summaries>>

\* ------------------------------------------------- the sequential runner
\* The multi-threaded run has ended: the process ended on the unhandled
\* rejection, or main returned and no event is left.
MultiEnded ==
    \/ pc = "crashed"
    \/ pc = "done" /\ \A i \in Items : chan[i] = <<>>

\* The results the await at the stage of item i can have in the sequential
\* run: the result the same await had in the worker of item i, either
\* result where the worker never got to the end of that await.
StageResults(i, stage) ==
    IF i \in Items /\ worker[i].stage > stage THEN {"returns"}
    ELSE IF i \in Items /\ worker[i].status = "threw" /\ worker[i].stage = stage
    THEN {"throws"}
    ELSE {"returns", "throws"}

\* The sequential main up to its loop: readdir and the same filter.  The
\* two runners are run one after the other on the same input directory.
SeqReaddir ==
    /\ MultiEnded
    /\ seq.pc = "idle"
    /\ seq' = [seq EXCEPT !.pc = "loop",
                          !.imageFiles = SelectSeq(files, IsImageFile),
                          !.i = 1, !.stage = 1]
    /\ UNCHANGED <<files, imageFiles, pc, mapIdx, worker, chan, promise, agg,
                   startOrder, summaries>>

SeqInLoop == seq.pc = "loop" /\ seq.i <= Len(seq.imageFiles)

\* The await the sequential run is at has a result the worker did not show.
SeqAssumes == seq.assumed \/ StageResults(seq.i, seq.stage) = {"returns", "throws"}

\* One await of the sequential processImage returns; after the last one
\* processImage returns, main logs the file as processed and goes on.
SeqStep ==
    /\ SeqInLoop
    /\ "returns" \in StageResults(seq.i, seq.stage)
    /\ LET out == IF seq.stage >= 3
                  THEN seq.outputs \cup
                         {<<OutputSubDirPath(seq.imageFiles[seq.i]),
                            TaskOfStage(seq.stage)>>}
                  ELSE seq.outputs
       IN  IF seq.stage < NumStages
           THEN seq' = [seq EXCEPT !.stage = @ + 1, !.outputs = out,
                                   !.assumed = SeqAssumes]
           ELSE seq' = [seq EXCEPT !.stage = 1, !.i = @ + 1, !.outputs = out,
                                   !.processed = @ \cup {seq.i},
                                   !.assumed = SeqAssumes]
    /\ UNCHANGED <<files, imageFiles, pc, mapIdx, worker, chan, promise, agg,
                   startOrder, summaries>>

\* One await of the sequential processImage throws: the await in the loop
\* throws, main() rejects and the run ends.
SeqThrow ==
    /\ SeqInLoop
    /\ "throws" \in StageResults(seq.i, seq.stage)
    /\ seq' = [seq EXCEPT !.pc = "crashed", !.assumed = SeqAssumes]
    /\ UNCHANGED <<files, imageFiles, pc, mapIdx, worker, chan, promise, agg,
                   startOrder, summaries>>

\* The loop has ended: the summary.
SeqFinish ==
    /\ seq.pc = "loop"
    /\ seq.i > Len(seq.imageFiles)
    /\ seq' = [seq EXCEPT !.pc = "done", !.summaries = @ + 1]
    /\ UNCHANGED <<files, imageFiles, pc, mapIdx, worker, chan, promise, agg,
                   startOrder, summaries>>

WorkerRun(i) == WorkerStep(i) \/ WorkerThrow(i) \/ WorkerPost(i) \/ WorkerHalt(i)

Next ==
    \/ Readdir
    \/ MapStep
    \/ Join
    \/ ProcessExit
    \/ \E i \in 1..MaxFiles : OnMessage(i)
    \/ \E i \in 1..MaxFiles : OnError(i)
    \/ \E i \in 1..MaxFiles : OnExit(i)
    \/ \E i \in 1..MaxFiles : WorkerStep(i)
    \/ \E i \in 1..MaxFiles : WorkerThrow(i)
    \/ \E i \in 1..MaxFiles : WorkerPost(i)
    \/ \E i \in 1..MaxFiles : WorkerHalt(i)

Spec == Init /\ [][Next]_vars

\* The benchmark: the multi-threaded runner, then the sequential runner on
\* the same input directory.
BenchmarkNext ==
    \/ Next
    \/ SeqReaddir
    \/ SeqStep
    \/ SeqThrow
    \/ SeqFinish

BenchmarkSpec == Init /\ [][BenchmarkNext]_vars

\* The main thread runs its code and its callbacks, and every worker thread
\* runs, as long as they can.
FairSpec ==
    /\ Spec
    /\ WF_vars(Readdir \/ MapStep \/ Join \/ ProcessExit)
    /\ \A i \in 1..MaxFiles :
          /\ WF_vars(OnMessage(i) \/ OnError(i) \/ OnExit(i))
          /\ WF_vars(WorkerRun(i))

\* ================================================================ claims
Min(a, b) == IF a <= b THEN a ELSE b

\* main has left the map: every call of the map callback has been made.
Mapped == pc \notin {"readdir", "map"}

\* Workers started whose outcome main has not observed.
Active == { i \in Items : worker[i].status # "none" /\ promise[i].state = "pending" }

\* C1: for every configured maxConcurrency k, the number of workers started
\* and not yet observed to end is at most min(k, N).
C1_ActiveWithinBound ==
    \A k \in 1..MaxConcurrency : Cardinality(Active) <= Min(k, N)

\* What item i's promise settles with, as far as its worker has decided it.
Outcome(i) ==
    IF promise[i].state # "pending" THEN promise[i]
    ELSE IF chan[i] = <<>> THEN Pending
    ELSE IF Head(chan[i]).kind = "message" THEN Resolved(Head(chan[i]))
    ELSE IF Head(chan[i]).kind = "error" \/ Head(chan[i]).code # 0
         THEN Rejected(Head(chan[i]))
    ELSE Pending

\* The failure of item i's worker (error event or non-zero exit) is recorded.
ItemFailed(i) ==
    /\ promise[i].state = "rejected"
    /\ promise[i].value.kind \in {"error", "exit"}

\* C2: when one item's worker has a recorded failure and every other item of
\* the batch succeeds, the batch aggregate is not rejected.
C2_FailureNotEscalated ==
    \A i \in Items :
        (/\ N >= 2
         /\ ItemFailed(i)
         /\ \A j \in Items \ {i} : Outcome(j).state = "resolved")
            => agg.state # "rejected"

\* C3: under fair scheduling the promise of every item of the batch is
\* eventually settled.
C3_EveryItemSettles ==
    <>(Mapped /\ \A i \in Items : promise[i].state # "pending")

\* C4: a worker that ended without posting a message, all of whose events
\* main has handled, has a recorded failure.
C4_SilentEndIsFailure ==
    \A i \in Items :
        (worker[i].status = "halted" /\ chan[i] = <<>> /\ pc # "crashed")
            => promise[i].state = "rejected"

\* C5: when the await of the aggregate has returned or thrown, every item of
\* a batch whose workers were all started has a recorded outcome and no
\* worker is still running.
C5_SettlesAfterAll ==
    (pc \in {"done", "rejected", "crashed"}
        /\ \A i \in Items : worker[i].status # "none")
    => \A i \in Items :
          promise[i].state # "pending" /\ worker[i].status # "running"

\* C6: once main has left the map, every item of the batch has a started
\* worker, or is an item whose own worker could not be constructed.
C6_EveryItemAttempted ==
    Mapped =>
        \A i \in Items :
            \/ worker[i].status # "none"
            \/ promise[i] = Rejected(ConstructError)

\* C6 witness: the first item's worker could not be constructed and the
\* second item's worker was started.
C6_Witness ==
    /\ Mapped
    /\ N >= 2
    /\ promise[1] = Rejected(ConstructError)
    /\ worker[2].status # "none"

\* C7: workers are started in batch order.
C7_StartedInBatchOrder ==
    \A a, b \in 1..Len(startOrder) :
        a < b => startOrder[a] < startOrder[b]

\* C7 witness: two workers were started and the second item's outcome is
\* recorded before the first item's.
C7_Witness ==
    /\ startOrder = <<1, 2>>
    /\ promise[2].state = "resolved"
    /\ promise[1].state = "pending"

\* The items whose outcome is a failure, and the first of them in the batch.
FailedItems == { i \in Items : Outcome(i).state = "rejected" }
FirstFailed == CHOOSE i \in FailedItems : \A j \in FailedItems : i <= j

\* C8: the value the aggregate of a batch whose workers were all started
\* settles with is determined by the per-item outcomes in batch order: the
\* messages in batch order, or the fault of the first failed item of the
\* batch.
C8_ValueInBatchOrder ==
    (\A i \in Items : worker[i].status # "none") =>
        /\ agg.state = "resolved" =>
              agg.values = [i \in Items |-> Message(imageFiles[i])]
        /\ agg.state = "rejected" => agg.reason = Outcome(FirstFailed).value

\* C9: two workers that run at the same time have different output
\* subdirectories.
C9_DisjointOutputDirs ==
    \A i, j \in Items :
        (i # j /\ Running(i) /\ Running(j))
            => OutputSubDirPath(imageFiles[i]) # OutputSubDirPath(imageFiles[j])

\* C10: for an empty batch main never waits for an event: after the map the
\* aggregate is resolved with an empty collection, and no worker is started.
C10_EmptyBatch ==
    (Mapped /\ imageFiles = <<>>) =>
        /\ pc = "done"
        /\ agg.state = "resolved"
        /\ agg.values = <<>>
        /\ startOrder = <<>>

\* C10 witness: a directory without a recognized image file has been run.
C10_Witness ==
    /\ files # <<>>
    /\ imageFiles = <<>>
    /\ pc = "done"

\* C11: with a configured maxConcurrency k of 0 or less the run is rejected
\* before any worker is started.
C11_NonPositiveRejected ==
    \A k \in (0 - MaxConcurrency)..MaxConcurrency :
        k < 1 => startOrder = <<>>

\* C12: the summary is reported at most once and only when the aggregate
\* has resolved, every item has a recorded outcome and no worker is running;
\* a run whose workers were all started has reported it once when it ends.
C12_SummaryOnce ==
    /\ summaries <= 1
    /\ summaries = 1 =>
          /\ agg.state = "resolved"
          /\ \A i \in Items :
                promise[i].state # "pending" /\ worker[i].status # "running"
    /\ (MultiEnded /\ \A i \in Items : worker[i].status # "none")
          => summaries = 1

IsPrefix(s, t) == Len(s) <= Len(t) /\ s = SubSeq(t, 1, Len(s))

\* The worker of item i has failed or was stopped.
WorkerFailed(w) == w.status \in {"threw", "halted", "killed"}

\* C13: the derivatives a worker has written are always a prefix of
\* thumbnail, small, medium, large, grayscale, blur, and a worker that has
\* failed writes nothing more.
C13_VariantsInOrder ==
    /\ [](\A i \in Items : IsPrefix(worker[i].written, Tasks))
    /\ [][\A i \in DOMAIN worker \cap DOMAIN worker' :
             WorkerFailed(worker[i]) => worker'[i].written = worker[i].written]_vars

\* C13 witness: a worker failed in the third task after writing the first two.
C13_Witness ==
    \E i \in Items :
        /\ worker[i].status = "threw"
        /\ worker[i].stage = 5
        /\ worker[i].written = <<"thumbnail", "small">>

\* The messages of item i's worker that main has not handled yet.
MessagesInFlight(i) ==
    { k \in 1..Len(chan[i]) : chan[i][k].kind = "message" }

\* C14: a worker posts at most one message, only after writing all six
\* variants and with its own filename; a worker that failed posts none.
C14_SuccessMessage ==
    \A i \in Items :
        /\ worker[i].posted <= 1
        /\ worker[i].posted = 1 => worker[i].written = Tasks
        /\ \A k \in MessagesInFlight(i) :
              chan[i][k] = Message(imageFiles[i]) /\ worker[i].posted = 1
        /\ promise[i].state = "resolved" =>
              promise[i].value = Message(imageFiles[i]) /\ worker[i].posted = 1
        /\ worker[i].status \in {"threw", "halted"} =>
              /\ worker[i].posted = 0
              /\ MessagesInFlight(i) = {}
              /\ promise[i].state # "resolved"

\* C14 witness: one worker's message has resolved its promise and another
\* worker has failed.
C14_Witness ==
    \E i, j \in Items :
        /\ worker[i].posted = 1
        /\ promise[i].state = "resolved"
        /\ worker[j].status = "threw"

\* C15: a settled promise of runWorker keeps its outcome: no later event of
\* the worker records another one.
C15_SettlesOnce ==
    [][\A i \in DOMAIN promise \cap DOMAIN promise' :
          promise[i].state # "pending" => promise'[i] = promise[i]]_vars

\* C15 witness: the error event of a worker rejected the promise, and its
\* exit event with code 1 has been handled after it.
C15_Witness ==
    \E i \in Items :
        /\ worker[i].status = "threw"
        /\ chan[i] = <<>>
        /\ pc = "rejected"
        /\ promise[i].state = "rejected"
        /\ promise[i].value.kind = "error"

\* The filename without its extension: the characters before the last dot.
StripExtension(filename) ==
    LET dots == { k \in 1..Len(filename) : filename[k] = "." }
    IN  IF dots = {} THEN filename
        ELSE SubSeq(filename, 1,
                    (CHOOSE k \in dots : \A m \in dots : k >= m) - 1)

\* C16: the output subdirectory of a started worker is the filename of its
\* item without the extension.
C16_DirIsNameWithoutExtension ==
    \A i \in Items :
        worker[i].status # "none" =>
            worker[i].dir = StripExtension(imageFiles[i])

\* The items the multi-threaded run has processed and the (subdirectory,
\* derivative) files it has written under its output root.
MultiProcessed == { i \in Items : worker[i].posted = 1 }
MultiOutputs ==
    UNION { { <<worker[i].dir, worker[i].written[k]>> :
                k \in 1..Len(worker[i].written) } : i \in Items }

\* C17: when both runners have run on the same files, every await of the
\* sequential run with the result it had in the worker of the same item,
\* they have processed the same items and written the same (subdirectory,
\* derivative) files.
C17_SameAsSequential ==
    (/\ MultiEnded
     /\ seq.pc \in {"done", "crashed"}
     /\ ~seq.assumed) =>
        /\ seq.processed = MultiProcessed
        /\ seq.outputs = MultiOutputs

====
